---- MODULE Spec2Model ----
(***************************************************************************)
(* The solar-system view (views/Chapter11.vue): the frame loop, the orbit  *)
(* update, the scale rebuild, pointer selection and hover, and the camera  *)
(* focus transitions.  And the code editor's composables                   *)
(* (composables/useCodePersistence.js): the debounced auto-save of         *)
(* useCodePersistence and executeCode of useCodeExecution.                 *)
(*                                                                         *)
(* Units.  All arithmetic of the source is on floating-point numbers; the  *)
(* model keeps it exact by counting in fixed units:                        *)
(*   wall-clock time        milliseconds                                   *)
(*   timeScale, *Scale      halves (the sliders step by 0.5)               *)
(*   baseSize, tilt         hundredths                                     *)
(*   radii                  1/200 (baseSize * scale), rings 1/400          *)
(*   orbitSpeed, rotation   1/10000 rad per second                         *)
(*   an angle               [q, d]: q * (pi/4) + d * 5e-8 rad              *)
(*   emissiveIntensity      tenths                                         *)
(*   an asteroid's spin     1/10000 rad per second; its rotation 5e-8 rad  *)
(*   an asteroid's scale    hundredths                                     *)
(* A position is kept in the form the code computes it from, so that two   *)
(* positions are equal exactly when they were computed from equal inputs:  *)
(*   XYZ(x,y,z)             literal coordinates                            *)
(*   Orbit(c,ang,r)         (c.x + cos(ang)*r, 0, c.z + sin(ang)*r)        *)
(*   Beside(p,d,h)          (p.x + d, d*h/10, p.z + d)                     *)
(*   Lerp(a,b,e)            a + (b - a) * e / Duration^2                   *)
(***************************************************************************)
EXTENDS Integers, Sequences, FiniteSets, TLC

\* ------------------------------------------------------------------ bounds
\* Wall-clock time between two frames is TickMs or 2 * TickMs.
TickMs == 750
\* No frame starts once MaxTicks * TickMs milliseconds have passed.
MaxTicks == 3
\* Camera focus requests made in one run.
MaxFocus == 2
\* updateScales calls made in one run.
MaxRebuilds == 3
\* Wall-clock time that passes between two events when no frame starts.
StepMs == 250
\* In the editor no time passes once HorizonMs milliseconds have, but for a
\* run of user code.
HorizonMs == 1500
\* Changes made to the code ref in one run.
MaxEdits == 3
\* executeCode calls made in one run.
MaxRuns == 2

\* --------------------------------------------------------------- constants
asteroidCount == 800
duration == 1500
\* the delay of the auto-save's setTimeout
debounceMs == 500
timeoutMs == 5000
timeoutMessage == "Code execution timeout (5 seconds)"

Null == "null"
Undefined == "undefined"

\* ------------------------------------------------------------------ vectors
XYZ(x, y, z) == [k |-> "xyz", x |-> x, y |-> y, z |-> z]
Orbit(c, ang, r) == [k |-> "orbit", c |-> c, ang |-> ang, r |-> r]
Beside(p, d, h) == [k |-> "beside", p |-> p, d |-> d, h |-> h]
Origin == XYZ(0, 0, 0)

Angle(q, d) == [q |-> q, d |-> d]
Advance(a, inc) == [a EXCEPT !.d = @ + inc]

\* ------------------------------------------------------------------ catalog
Planet(name, baseSize, orbitRadius, orbitSpeed, rotationSpeed, q, tilt, moons) ==
  [name |-> name, baseSize |-> baseSize, orbitRadius |-> orbitRadius,
   orbitSpeed |-> orbitSpeed, rotationSpeed |-> rotationSpeed,
   angle |-> Angle(q, 0), tilt |-> tilt, info |-> [moons |-> moons]]

planetsData0 ==
  << Planet("Mercury", 38, 40, 400, 20, 0, 1, 0),
     Planet("Venus", 95, 70, 150, -10, 1, 5, 0),
     Planet("Earth", 100, 100, 100, 50, 2, 41, 1),
     Planet("Mars", 53, 150, 80, 40, 3, 44, 2),
     Planet("Jupiter", 500, 250, 40, 100, 4, 5, 79),
     Planet("Saturn", 450, 350, 30, 90, 5, 47, 82),
     Planet("Uranus", 200, 420, 20, 70, 6, 171, 27),
     Planet("Neptune", 195, 480, 10, 80, 7, 49, 14) >>

PlanetIds == 1..Len(planetsData0)
PlanetNames == {planetsData0[i].name : i \in PlanetIds}
IdOf(name) == CHOOSE i \in PlanetIds : planetsData0[i].name = name

\* hasMoon / hasRings and the fields that come with them
MoonOwners == {IdOf("Earth")}
RingOwners == {IdOf("Saturn")}
moonBaseSize == 27
moonOrbitRadius == 3
moonOrbitSpeed == 300
MoonName(i) == planetsData0[i].name \o "'s Moon"

\* ------------------------------------------------------------------- state
VARIABLES
  isPaused,            \* ref isPaused
  timeScale,           \* ref timeScale
  sunScale,            \* ref sunScale
  planetScale,         \* ref planetScale
  moonScale,           \* ref moonScale
  selectedPlanet,      \* ref selectedPlanet: Null, Undefined or the name of the planetsData entry it refers to
  selectedPlanetName,  \* ref selectedPlanetName: Null or a name
  planetsData,         \* the planetsData objects (animate advances their angle)
  meshes,              \* solarSystem.planets[i].mesh
  moons,               \* solarSystem.planets[i].moon and .moonData
  rings,               \* solarSystem.planets[i].rings
  sun,                 \* solarSystem.sun and its glow child
  asteroids,           \* solarSystem.asteroidBelt.data
  camera,              \* camera.position
  target,              \* controls.target
  clock,               \* the THREE.Clock: running, oldTime
  now,                 \* wall-clock time (Date.now, performance.now)
  requests,            \* the number of animateCameraTo calls so far
  rafQueue,            \* callbacks passed to requestAnimationFrame for the next frame; an animateCamera callback carries its closure
  frame,               \* callbacks of the frame in progress still to run
  shown,               \* camera position and look-at handed to renderer.render last, and when
  cursor,              \* canvas style.cursor
  threw,               \* the last handler ended by throwing
  last,                \* the handler or callback that ran last
  mounted,             \* the component is mounted: onBeforeUnmount has not run
  geometry,            \* for each drawable of the scene, the geometries made for it, oldest first: how often each was disposed (.rescaled: the drawables updateScales rebuilds, .fixed: the others)
  viewport,            \* width and height of the canvas container as last read (camera.aspect, renderer size)
  unpausedMs,          \* history: the wall-clock time that has passed with isPaused false since animate last stepped the simulation
  code,                \* useCodePersistence: ref code
  saveTimeout,         \* useCodePersistence: saveTimeout, the id of the timer set last (ids are positive), 0 for null
  storage,             \* localStorage's item under storageKey, Null when there is none
  timers,              \* the pending setTimeout callbacks: id, due time, the callback and the newCode it closes over
  timerId,             \* the id setTimeout returned last
  changes,             \* history: the changes of code, when and to what
  saved,               \* history: the localStorage.setItem calls, when and with what
  isExecuting,         \* useCodeExecution: ref isExecuting
  executionError,      \* useCodeExecution: ref executionError
  executionSuccess,    \* useCodeExecution: ref executionSuccess
  results,             \* what the executeCode calls resolved with, in order, with when each was called and when it settled
  hung                 \* the thread is inside user code that never returns

simVars == <<isPaused, timeScale, planetsData, meshes, moons, sun, asteroids, clock>>
scaleVars == <<sunScale, planetScale, moonScale>>
selVars == <<selectedPlanet, selectedPlanetName>>
camVars == <<camera, target, requests>>
loopVars == <<now, unpausedMs, rafQueue, frame, shown>>
ptrVars == <<cursor>>
runVars == <<threw, last>>
lifeVars == <<mounted, geometry, viewport>>
saveVars == <<code, saveTimeout, storage, changes, saved>>
execVars == <<isExecuting, executionError, executionSuccess, results, hung>>
editorVars == <<saveVars, execVars, timers, timerId>>
viewVars == <<simVars, scaleVars, selVars, camVars, rafQueue, frame, shown, ptrVars, runVars, rings, lifeVars>>
vars == <<viewVars, now, unpausedMs, editorVars>>

\* ------------------------------------------------------------ construction
\* createSun: SphereGeometry(10) and a glow child SphereGeometry(13)
sunRadius0 == 2000
glowRadius0 == 2600
\* createPlanets: emissiveIntensity 0.3; onCanvasMouseMove resets to 0.1
emissiveCreated == 3
emissiveReset == 1
emissiveHover == 3
\* MeshStandardMaterial's default emissiveIntensity (the ring material)
emissiveDefault == 10

PlanetSize(i, ps) == planetsData0[i].baseSize * ps
MoonSize(ms) == moonBaseSize * ms
RingGeometry(size) == [inner |-> 3 * size, outer |-> 5 * size]

CreatePlanetMesh(i, ps) ==
  [position |-> Orbit(Origin, planetsData0[i].angle, planetsData0[i].orbitRadius),
   rotY |-> 0, rotZ |-> planetsData0[i].tilt,
   radius |-> PlanetSize(i, ps), emissive |-> emissiveCreated]

CreateMoon(ms) ==
  [position |-> XYZ(moonOrbitRadius, 0, 0), rotY |-> 0, radius |-> MoonSize(ms),
   data |-> [orbitRadius |-> moonOrbitRadius, orbitSpeed |-> moonOrbitSpeed,
             angle |-> Angle(0, 0)]]

CreateRings(i, ps) ==
  [geometry |-> RingGeometry(PlanetSize(i, ps)), emissive |-> emissiveDefault]

CreateSun ==
  [rotY |-> 0, radius |-> sunRadius0, glowRadius |-> glowRadius0, glowLit |-> FALSE]

\* createAsteroidBelt draws every record from Math.random; a seed stands for the draws.
Seeds == 0..1
\* pi/4 in units of 5e-8 rad
quarterPi == 15707963
CreateAsteroid(seed, i) ==
  [orbitRadius |-> 180 + ((seed + i) % 3) * 13,
   angle |-> Angle((seed + 3 * i) % 8, 0),
   orbitSpeed |-> 20 + ((seed + i) % 2) * 9,
   rotationSpeed |-> 30 + ((seed + i) % 2) * 40,
   rotation |-> (1 + ((seed + i) % 3)) * quarterPi,
   scale |-> 50 + ((seed + 7 * i) % 4) * 50]

\* The sum of CreateAsteroid(seed, j).rotationSpeed over j in 1..i: of the i
\* records, (i + 1 - seed % 2) \div 2 have the faster spin.
SpinThrough(seed, i) == 30 * i + 40 * ((i + 1 - (seed % 2)) \div 2)

\* What createAsteroidBelt draws and never writes again: per draw, the
\* records' orbitRadius, orbitSpeed and rotationSpeed, and the rotation and
\* scale the instance matrices are first composed from.
asteroidData0 == [seed \in Seeds |-> [i \in 1..asteroidCount |-> CreateAsteroid(seed, i)]]

\* The asteroid belt.  count is the instance count of the InstancedMesh; seed
\* names the draw, of which asteroidData0 holds the fields that stay as drawn;
\* record i's angle is CreateAsteroid(seed, i).angle.q * pi/4 + angle[i] * 5e-8.
\* animate steps one dummy object through the records, adding each record's
\* rotationSpeed * scaledDelta to the dummy's rotation without resetting it:
\* at record i it has gathered SpinThrough(seed, i) * scaledDelta.
\* The instance matrices: instance i was composed from a rotation and a
\* scale.  Of the rotation only turned[i] is kept, whether it differs from
\* the identity: that is all animate reads back of it, through the matrix
\* diagonal.  Of the scale only shrunk[i] is kept: whether it is no longer
\* the scale drawn at construction but smaller in magnitude (see ScaleRead).
CreateAsteroidBelt(seed) ==
  [count |-> asteroidCount,
   seed |-> seed,
   angle |-> [i \in 1..asteroidCount |-> CreateAsteroid(seed, i).angle.d],
   turned |-> [i \in 1..asteroidCount |-> CreateAsteroid(seed, i).rotation # 0],
   shrunk |-> [i \in 1..asteroidCount |-> FALSE]]

\* The drawables of the scene that own a geometry
OrbitLineName(i) == planetsData0[i].name \o " orbit"
Rescaled ==
  {"Sun", "Sun glow"} \cup PlanetNames
    \cup {planetsData0[i].name \o " rings" : i \in RingOwners}
    \cup {MoonName(i) : i \in MoonOwners}
Unscaled == {OrbitLineName(i) : i \in PlanetIds} \cup {"asteroidBelt", "starfield"}

\* The container's size at mount, and the sizes a resize can give it
viewport0 == [width |-> 800, height |-> 600]
Viewports == {viewport0, [width |-> 0, height |-> 0], [width |-> 400, height |-> 0]}

timeScale0 == 2
\* useCodePersistence(key, defaultCode) with nothing saved under the key
defaultCode == "default"
sunScale0 == 6
planetScale0 == 8
moonScale0 == 12

AnimateEntry == [fn |-> "animate", c |-> <<>>]
CameraEntry(c) == [fn |-> "animateCamera", c |-> c]

\* The state when onMounted has built the scene and is about to call animate().
Init ==
  /\ isPaused = FALSE
  /\ timeScale = timeScale0
  /\ sunScale = sunScale0
  /\ planetScale = planetScale0
  /\ moonScale = moonScale0
  /\ selectedPlanet = Null
  /\ selectedPlanetName = Null
  /\ planetsData = planetsData0
  /\ meshes = [i \in PlanetIds |-> CreatePlanetMesh(i, planetScale0)]
  /\ moons = [i \in MoonOwners |-> CreateMoon(moonScale0)]
  /\ rings = [i \in RingOwners |-> CreateRings(i, planetScale0)]
  /\ sun = CreateSun
  /\ \E seed \in Seeds : asteroids = CreateAsteroidBelt(seed)
  /\ camera = XYZ(150, 200, 150)
  /\ target = Origin
  /\ requests = 0
  /\ clock = [running |-> FALSE, oldTime |-> 0]
  /\ now = 0
  /\ rafQueue = <<>>
  /\ frame = <<AnimateEntry>>
  /\ shown = [camera |-> XYZ(150, 200, 150), target |-> Origin, at |-> 0]
  /\ cursor = ""
  /\ threw = FALSE
  /\ last = "onMounted"
  /\ mounted = TRUE
  /\ geometry = [rescaled |-> [d \in Rescaled |-> <<0>>], fixed |-> [d \in Unscaled |-> <<0>>]]
  /\ viewport = viewport0
  /\ unpausedMs = 0
  /\ code = defaultCode
  /\ saveTimeout = 0
  /\ storage = Null
  /\ timers = {}
  /\ timerId = 0
  /\ changes = <<>>
  /\ saved = <<>>
  /\ isExecuting = FALSE
  /\ executionError = Null
  /\ executionSuccess = FALSE
  /\ results = <<>>
  /\ hung = FALSE

\* The view's handler named h ran to its end; or it threw.  None touches the
\* editor's composables.
Ran(h) == threw' = FALSE /\ last' = h /\ UNCHANGED editorVars
Threw(h) == threw' = TRUE /\ last' = h /\ UNCHANGED editorVars

\* --------------------------------------------------------------- frame loop
\* The browser starts a frame: time has passed, and the callbacks requested
\* since the last frame run in the order they were requested.
Frame ==
  /\ frame = <<>>
  /\ rafQueue # <<>>
  /\ \E k \in 1..2 :
       /\ now + k * TickMs <= MaxTicks * TickMs
       /\ now' = now + k * TickMs
       /\ unpausedMs' = IF isPaused THEN unpausedMs ELSE unpausedMs + k * TickMs
  /\ frame' = rafQueue
  /\ rafQueue' = <<>>
  /\ UNCHANGED <<simVars, scaleVars, selVars, camVars, shown, ptrVars, runVars, rings, lifeVars,
                 editorVars>>

\* Time passes between two frames.
Elapse ==
  /\ frame = <<>>
  /\ now + StepMs <= MaxTicks * TickMs
  /\ now' = now + StepMs
  /\ unpausedMs' = IF isPaused THEN unpausedMs ELSE unpausedMs + StepMs
  /\ UNCHANGED <<viewVars, editorVars>>

SimRunsAlways == TRUE
\* animate: the simulation is stepped only when not paused
SimRuns == ~isPaused

\* clock.getDelta() * timeScale.value, in ms * halves; the first call starts
\* the clock and returns 0
ScaledDelta == IF clock.running THEN (now - clock.oldTime) * timeScale ELSE 0

TickData(sd) ==
  [i \in PlanetIds |->
     [planetsData[i] EXCEPT !.angle = Advance(@, planetsData[i].orbitSpeed * sd)]]

TickMeshStale(i, sd) ==
  [meshes[i] EXCEPT
     !.position = Orbit(Origin, planetsData[i].angle, planetsData[i].orbitRadius),
     !.rotY = @ + planetsData[i].rotationSpeed * sd]
TickMesh(i, sd) ==
  [meshes[i] EXCEPT
     !.position = Orbit(Origin, TickData(sd)[i].angle, planetsData[i].orbitRadius),
     !.rotY = @ + planetsData[i].rotationSpeed * sd]

TickMoonCached(i, sd) ==
  LET moonData == [moons[i].data EXCEPT !.angle = Advance(@, moons[i].data.orbitSpeed * sd)]
  IN  [moons[i] EXCEPT
         !.data = moonData,
         !.position = Orbit(meshes[i].position, moonData.angle, moonData.orbitRadius),
         !.rotY = @ + 100 * sd]
\* The moon is placed around the position its planet was given in this tick.
TickMoon(i, sd) ==
  LET moonData == [moons[i].data EXCEPT !.angle = Advance(@, moons[i].data.orbitSpeed * sd)]
  IN  [moons[i] EXCEPT
         !.data = moonData,
         !.position = Orbit(TickMesh(i, sd).position, moonData.angle, moonData.orbitRadius),
         !.rotY = @ + 100 * sd]

\* Math.cbrt(m[0] * m[5] * m[10]) of an instance matrix composed from a
\* rotation and a uniform scale s: the three diagonal entries are s times the
\* diagonal of the rotation matrix, whose product is 1 for the identity and
\* lies strictly between -1 and 1 for the rotations drawn or gathered here.
\* The value read is the scale for the identity, and the scale times the cube
\* root of that product otherwise: smaller in magnitude, and so never back at
\* the scale drawn at construction.
ScaleRead(turned, shrunk) == shrunk \/ turned

TickAsteroidsLosing(sd) ==
  [asteroids EXCEPT
     !.angle = [i \in 1..(asteroidCount - 1) |->
                  @[i] + asteroidData0[asteroids.seed][i].orbitSpeed * sd]]
\* For every record: asteroid.angle += asteroid.orbitSpeed * scaledDelta; the
\* instance matrix is composed anew from the dummy's gathered rotation and
\* the scale read back from the matrix it replaces.
TickAsteroids(sd) ==
  LET asteroidData == asteroidData0[asteroids.seed]
      turned == asteroids.turned
  IN  [asteroids EXCEPT
         !.angle = [i \in DOMAIN @ |-> @[i] + asteroidData[i].orbitSpeed * sd],
         !.shrunk = [i \in DOMAIN @ |-> ScaleRead(turned[i], @[i])],
         !.turned = [i \in DOMAIN @ |-> SpinThrough(asteroids.seed, i) * sd # 0]]

RequestedUnlessPaused(queue) == IF isPaused THEN queue ELSE Append(queue, AnimateEntry)
\* animationId = requestAnimationFrame(animate), the first statement of animate
Requested(queue) == Append(queue, AnimateEntry)

Animate ==
  /\ frame # <<>>
  /\ Head(frame).fn = "animate"
  /\ frame' = Tail(frame)
  /\ rafQueue' = Requested(rafQueue)
  /\ IF SimRuns
       THEN LET sd == ScaledDelta IN
            /\ clock' = [running |-> TRUE, oldTime |-> now]
            /\ sun' = [sun EXCEPT !.rotY = @ + 10 * sd]
            /\ planetsData' = TickData(sd)
            /\ meshes' = [i \in PlanetIds |-> TickMesh(i, sd)]
            /\ moons' = [i \in MoonOwners |-> TickMoon(i, sd)]
            /\ asteroids' = TickAsteroids(sd)
            /\ unpausedMs' = 0
       ELSE UNCHANGED <<clock, sun, planetsData, meshes, moons, asteroids, unpausedMs>>
  /\ shown' = [camera |-> camera, target |-> target, at |-> now]
  /\ Ran("animate")
  /\ UNCHANGED <<isPaused, timeScale, scaleVars, selVars, camVars, now, ptrVars, rings, lifeVars>>

\* ---------------------------------------------------------------- controls
StartedKeepingTime(c) == [c EXCEPT !.running = TRUE]
\* clock.start(): the clock runs, and its next delta is measured from now
Started(c) == [running |-> TRUE, oldTime |-> now]

\* The pause button; watch(isPaused) restarts the clock on resume.
TogglePause ==
  /\ mounted
  /\ frame = <<>>
  /\ isPaused' = ~isPaused
  /\ clock' = IF isPaused THEN Started(clock) ELSE clock
  /\ Ran("pause")
  /\ UNCHANGED <<timeScale, planetsData, meshes, moons, sun, asteroids,
                 scaleVars, selVars, camVars, loopVars, ptrVars, rings, lifeVars>>

\* The speed slider: 0 to 50 in steps of 0.5
TimeScales == {0, 2, 5}
SetTimeScale ==
  /\ mounted
  /\ frame = <<>>
  /\ \E v \in TimeScales \ {timeScale} : timeScale' = v
  /\ Ran("timeScale")
  /\ UNCHANGED <<isPaused, planetsData, meshes, moons, sun, asteroids, clock,
                 scaleVars, selVars, camVars, loopVars, ptrVars, rings, lifeVars>>

\* ------------------------------------------------------------ updateScales
ScaledSun(ss) == [sun EXCEPT !.radius = 1000 * ss, !.glowRadius = 1200 * ss]
ScaledMesh(i, ps) == [meshes[i] EXCEPT !.radius = PlanetSize(i, ps)]
ScaledRings(i, ps) == [rings[i] EXCEPT !.geometry = RingGeometry(PlanetSize(i, ps))]
ScaledMoonRebuilt(i, ms) == CreateMoon(ms)
ScaledMoon(i, ms) == [moons[i] EXCEPT !.radius = MoonSize(ms)]

RebuiltKeepingOld(disposals) == Append(disposals, 0)
\* geometry.dispose() on the attached geometry, then a new one in its place
Rebuilt(disposals) ==
  Append([disposals EXCEPT ![Len(disposals)] = @ + 1], 0)

\* watch([sunScale, planetScale, moonScale]) calls updateScales with the new values
UpdateScales(ss, ps, ms) ==
  /\ Len(geometry.rescaled["Sun"]) <= MaxRebuilds
  /\ geometry' = [geometry EXCEPT !.rescaled = [d \in DOMAIN @ |-> Rebuilt(@[d])]]
  /\ sun' = ScaledSun(ss)
  /\ meshes' = [i \in PlanetIds |-> ScaledMesh(i, ps)]
  /\ rings' = [i \in RingOwners |-> ScaledRings(i, ps)]
  /\ moons' = [i \in MoonOwners |-> ScaledMoon(i, ms)]

\* The three sliders (halves): Sun 1..5, planets 1..10, moons 1..15
SunScales == {sunScale0, 10}
PlanetScales == {planetScale0, 16}
MoonScales == {moonScale0, 5}

SetSunScale ==
  /\ mounted
  /\ frame = <<>>
  /\ \E v \in SunScales \ {sunScale} :
       /\ sunScale' = v
       /\ UpdateScales(v, planetScale, moonScale)
  /\ Ran("sunScale")
  /\ UNCHANGED <<planetScale, moonScale, isPaused, timeScale, planetsData, asteroids,
                 clock, selVars, camVars, loopVars, ptrVars, mounted, viewport>>

SetPlanetScale ==
  /\ mounted
  /\ frame = <<>>
  /\ \E v \in PlanetScales \ {planetScale} :
       /\ planetScale' = v
       /\ UpdateScales(sunScale, v, moonScale)
  /\ Ran("planetScale")
  /\ UNCHANGED <<sunScale, moonScale, isPaused, timeScale, planetsData, asteroids,
                 clock, selVars, camVars, loopVars, ptrVars, mounted, viewport>>

SetMoonScale ==
  /\ mounted
  /\ frame = <<>>
  /\ \E v \in MoonScales \ {moonScale} :
       /\ moonScale' = v
       /\ UpdateScales(sunScale, planetScale, v)
  /\ Ran("moonScale")
  /\ UNCHANGED <<sunScale, planetScale, isPaused, timeScale, planetsData, asteroids,
                 clock, selVars, camVars, loopVars, ptrVars, mounted, viewport>>

\* ------------------------------------------------------------ camera focus
Min(a, b) == IF a < b THEN a ELSE b

\* a + (b - a) * e / duration^2; lerpVectors gives a itself for e = 0 or b = a
Lerp(a, b, e) ==
  IF e = 0 \/ a = b THEN a
  ELSE IF e = duration * duration THEN b
  ELSE [k |-> "lerp", a |-> a, b |-> b, e |-> e]

ProgressScaled(c) == Min(((now - c.startTime) * timeScale) \div 2, duration)
\* progress = Math.min(elapsed / duration, 1), as its numerator over duration
Progress(c) == Min(now - c.startTime, duration)

EasedIn(pn) == 2 * pn * pn
\* eased = progress < 0.5 ? 2 p p : -1 + (4 - 2 p) p, as its numerator over duration^2
Eased(pn) ==
  IF 2 * pn < duration
    THEN 2 * pn * pn
    ELSE 4 * duration * pn - 2 * pn * pn - duration * duration

\* targetLookAt is either a fresh vector or the position object of a mesh,
\* which animate keeps writing to
Fixed(v) == [of |-> "vector", v |-> v, i |-> 0]
PositionOfMesh(i) == [of |-> "mesh", v |-> Origin, i |-> i]
PositionOfMoon(i) == [of |-> "moon", v |-> Origin, i |-> i]
Value(ref) ==
  CASE ref.of = "vector" -> ref.v
    [] ref.of = "mesh" -> meshes[ref.i].position
    [] ref.of = "moon" -> moons[ref.i].position

PositionAt(c) == Lerp(c.startPosition, c.targetPosition, Eased(Progress(c)))
TargetAt(c) == Lerp(c.startTarget, Value(c.targetLookAt), Eased(Progress(c)))

\* The transitions in flight: the animateCamera closures that have a step
\* scheduled, oldest first
IsCameraEntry(e) == e.fn = "animateCamera"
Transitions == SelectSeq(rafQueue \o frame, IsCameraEntry)

\* animateCameraTo: the closure is created and its first step runs at once
AnimateCameraTo(targetPosition, targetLookAt) ==
  LET c == [startPosition |-> camera, startTarget |-> target,
            targetPosition |-> targetPosition, targetLookAt |-> targetLookAt,
            startTime |-> now]
  IN  /\ requests < MaxFocus
      /\ requests' = requests + 1
      /\ camera' = PositionAt(c)
      /\ target' = TargetAt(c)
      /\ rafQueue' = IF Progress(c) < duration
                       THEN Append(rafQueue, CameraEntry(c))
                       ELSE rafQueue

\* animateCamera, as a requestAnimationFrame callback
AnimateCamera ==
  /\ frame # <<>>
  /\ Head(frame).fn = "animateCamera"
  /\ LET c == Head(frame).c
     IN  /\ camera' = PositionAt(c)
         /\ target' = TargetAt(c)
         /\ rafQueue' = IF Progress(c) < duration THEN Append(rafQueue, Head(frame)) ELSE rafQueue
  /\ frame' = Tail(frame)
  /\ Ran("animateCamera")
  /\ UNCHANGED <<simVars, scaleVars, selVars, requests, now, unpausedMs, shown, ptrVars, rings, lifeVars>>

FocusOnSun == AnimateCameraTo(XYZ(100, 80, 100), Fixed(Origin))

FocusOnPlanet(i) ==
  LET distance == planetsData[i].baseSize * planetScale * 8
  IN  AnimateCameraTo(Beside(meshes[i].position, distance, 5), PositionOfMesh(i))

FocusOnMoon(i) ==
  LET distance == MoonSize(moonScale) * 10
  IN  AnimateCameraTo(Beside(moons[i].position, distance, 3), PositionOfMoon(i))

\* bodyName.includes("'s Moon") and bodyName.replace("'s Moon", ''): the name
\* is searched for the text anywhere in it, and the text is cut out of it.
\* Parents and Rests are the strings tried before and after the text.
Parents == PlanetNames \cup {"Pluto", "Ear"}
Rests == {"", "th"}
IsMoonName(bodyName) ==
  \E p \in Parents, r \in Rests : bodyName = p \o "'s Moon" \o r
ParentPlanetName(bodyName) ==
  LET cut == CHOOSE cut \in Parents \X Rests : bodyName = cut[1] \o "'s Moon" \o cut[2]
  IN  cut[1] \o cut[2]

BodyNames == {"Sun", "Earth", "Earth's Moon", "Saturn's Moon", "Pluto", "Ear's Moonth"}

FocusOnBody(bodyName) ==
  /\ mounted
  /\ frame = <<>>
  /\ IF bodyName = "Sun"
       THEN /\ FocusOnSun
            /\ selectedPlanet' = Null
            /\ selectedPlanetName' = "Sun"
       ELSE IF IsMoonName(bodyName)
         THEN LET parent == ParentPlanetName(bodyName)
              IN  IF parent \in PlanetNames /\ IdOf(parent) \in MoonOwners
                    THEN /\ FocusOnMoon(IdOf(parent))
                         /\ selectedPlanet' = Null
                         /\ selectedPlanetName' = bodyName
                    ELSE UNCHANGED <<selVars, camVars, rafQueue>>
         ELSE IF bodyName \in PlanetNames
           THEN /\ selectedPlanet' = planetsData[IdOf(bodyName)].name
                /\ selectedPlanetName' = bodyName
                /\ FocusOnPlanet(IdOf(bodyName))
           ELSE UNCHANGED <<selVars, camVars, rafQueue>>
  /\ Ran("focusOnBody")
  /\ UNCHANGED <<simVars, scaleVars, now, unpausedMs, frame, shown, ptrVars, rings, lifeVars>>

FitAll ==
  /\ mounted
  /\ frame = <<>>
  /\ camera' = XYZ(600, 400, 600)
  /\ target' = Origin
  /\ selectedPlanet' = Null
  /\ selectedPlanetName' = Null
  /\ Ran("fitAll")
  /\ UNCHANGED <<simVars, scaleVars, requests, loopVars, ptrVars, rings, lifeVars>>

\* The info panel's close button, there while selectedPlanet is truthy
CloseInfo ==
  /\ mounted
  /\ frame = <<>>
  /\ selectedPlanet \notin {Null, Undefined}
  /\ selectedPlanet' = Null
  /\ Ran("close")
  /\ UNCHANGED <<simVars, scaleVars, selectedPlanetName, camVars, loopVars, ptrVars, rings, lifeVars>>

\* ----------------------------------------------------------------- pointer
\* updateMousePosition and raycaster.setFromCamera turn the pointer position
\* into a ray.  A ray is the list of the meshes it meets, nearest first.  The raycaster
\* tests the children of the objects it is given too: the Sun's glow and a
\* planet's rings.
GlowName == "Sun glow"
RingsName(i) == planetsData0[i].name \o " rings"
RingsNames == {RingsName(i) : i \in RingOwners}
RingsOwner(o) == CHOOSE i \in RingOwners : RingsName(i) = o

Rays ==
  { <<>>,
    <<"Earth">>,
    <<GlowName, "Sun">>,
    <<"Earth", GlowName, "Sun">>,
    <<GlowName, "Sun", "Earth">>,
    <<"Saturn", "Earth">>,
    <<"Saturn rings", "Saturn">>,
    <<"Saturn rings">> }

\* raycaster.intersectObject(solarSystem.sun)
InSun(o) == o \in {"Sun", GlowName}
\* raycaster.intersectObjects(planetMeshes)
InPlanets(o) == o \in PlanetNames \cup RingsNames

ClearSelectionNameOnly == selectedPlanetName' = Null /\ UNCHANGED selectedPlanet
\* onCanvasClick, nothing hit
ClearSelection == selectedPlanet' = Null /\ selectedPlanetName' = Null

OnCanvasClick(ray) ==
  /\ mounted
  /\ frame = <<>>
  /\ LET sunIntersects == SelectSeq(ray, InSun)
         intersects == SelectSeq(ray, InPlanets)
     IN  IF sunIntersects # <<>>
           THEN /\ FocusOnSun
                /\ selectedPlanet' = Null
                /\ selectedPlanetName' = "Sun"
                /\ Ran("click")
           ELSE IF intersects # <<>>
             THEN LET clickedPlanet == Head(intersects)
                  IN  IF clickedPlanet \in PlanetNames
                        THEN /\ selectedPlanet' = planetsData[IdOf(clickedPlanet)].name
                             /\ selectedPlanetName' = planetsData[IdOf(clickedPlanet)].name
                             /\ FocusOnPlanet(IdOf(clickedPlanet))
                             /\ Ran("click")
                        ELSE \* userData.planetData is undefined; reading its name throws
                             /\ selectedPlanet' = Undefined
                             /\ UNCHANGED <<selectedPlanetName, camVars, rafQueue>>
                             /\ Threw("click")
             ELSE /\ ClearSelection
                  /\ UNCHANGED <<camVars, rafQueue>>
                  /\ Ran("click")
  /\ UNCHANGED <<simVars, scaleVars, now, unpausedMs, frame, shown, cursor, rings, lifeVars>>

\* intersects[0].object of onCanvasMouseMove
Hovered(ray) == Head(ray)

OnCanvasMouseMove(ray) ==
  /\ mounted
  /\ frame = <<>>
  /\ LET hovered == IF ray = <<>> THEN "" ELSE Hovered(ray)
     IN  /\ meshes' = [i \in PlanetIds |->
                         [meshes[i] EXCEPT !.emissive =
                            IF hovered = planetsData0[i].name THEN emissiveHover ELSE emissiveReset]]
         /\ sun' = [sun EXCEPT !.glowLit = @ \/ hovered = GlowName]
         /\ rings' = [i \in RingOwners |->
                        [rings[i] EXCEPT !.emissive =
                           IF hovered = RingsName(i) THEN emissiveHover ELSE @]]
         /\ cursor' = IF ray # <<>> THEN "pointer" ELSE "default"
  /\ Ran("mousemove")
  /\ UNCHANGED <<isPaused, timeScale, planetsData, moons, asteroids, clock,
                 scaleVars, selVars, camVars, loopVars, lifeVars>>

\* ---------------------------------------------------------------- viewport
\* clientWidth or clientHeight of the container is 0
Degenerate(v) == v.width = 0 \/ v.height = 0

\* onWindowResize, from the window's resize event or the ResizeObserver:
\* camera.aspect = width / height and renderer.setSize(width, height).  After
\* unmount only the ResizeObserver is left, and canvasRef.value is null.
OnWindowResize ==
  /\ frame = <<>>
  /\ IF mounted
       THEN /\ \E v \in Viewports \ {viewport} : viewport' = v
            /\ Ran("resize")
       ELSE /\ UNCHANGED viewport
            /\ Threw("resize")
  /\ UNCHANGED <<simVars, scaleVars, selVars, camVars, loopVars, ptrVars, rings,
                 mounted, geometry>>

\* ----------------------------------------------------------------- teardown
\* scene.traverse: object.geometry.dispose() on the geometry attached
Disposed(disposals) == [disposals EXCEPT ![Len(disposals)] = @ + 1]

\* cancelAnimationFrame(animationId): the pending animate callback is dropped
Cancelled(queue) == SelectSeq(queue, LAMBDA e : e.fn # "animate")

\* onBeforeUnmount
Teardown ==
  /\ mounted
  /\ frame = <<>>
  /\ mounted' = FALSE
  /\ rafQueue' = Cancelled(rafQueue)
  /\ geometry' = [rescaled |-> [d \in DOMAIN geometry.rescaled |-> Disposed(geometry.rescaled[d])],
                  fixed |-> [d \in DOMAIN geometry.fixed |-> Disposed(geometry.fixed[d])]]
  /\ Ran("onBeforeUnmount")
  /\ UNCHANGED <<simVars, scaleVars, selVars, camVars, now, unpausedMs, frame, shown, ptrVars, rings,
                 viewport>>

\* ------------------------------------------------------------ editor: timers
\* A timer is due.  The editor's events are taken at their instants: a due
\* timer's callback runs before time passes on or the code is changed again.
Due(t) == t.due <= now
NoneDue == \A t \in timers : ~Due(t)
Earliest == CHOOSE t \in timers : \A u \in timers : t.due <= u.due

\* setTimeout(fn, delay): the timer set by the call that gets the id given
SetTimeout(id, fn, delay, newCode) ==
  [id |-> id, due |-> now + delay, fn |-> fn, newCode |-> newCode]

ClearTimeoutNoOp(id) == timers
\* clearTimeout(id): no timer is pending under the id afterwards
ClearTimeout(id) == {t \in timers : t.id # id}

\* Time passes in the editor: up to the next timer's due time and by StepMs at
\* most; a thread hung in user code runs no timer.
Wait ==
  /\ now < HorizonMs
  /\ IF hung THEN TRUE ELSE NoneDue
  /\ \E t \in {now + StepMs} \cup {u.due : u \in IF hung THEN {} ELSE timers} :
       /\ IF hung \/ timers = {} THEN TRUE ELSE t <= Earliest.due
       /\ now' = t
       /\ unpausedMs' = IF isPaused THEN unpausedMs ELSE unpausedMs + (t - now)
  /\ UNCHANGED <<viewVars, editorVars>>

\* ----------------------------------------------------- useCodePersistence
\* The values the editor gives the code ref
Sources == {defaultCode, "a", "b"}

\* saveCode: localStorage.setItem(storageKey, code)
SaveCode(value) ==
  /\ storage' = value
  /\ saved' = Append(saved, [at |-> now, value |-> value])

\* code.value = value with a value that differs, and the watcher's callback:
\* the pending save is cancelled and one is set for 500 ms from now
EditCode(value) ==
  /\ ~hung
  /\ NoneDue
  /\ Len(changes) < MaxEdits
  /\ value # code
  /\ code' = value
  /\ changes' = Append(changes, [at |-> now, value |-> value])
  /\ timerId' = timerId + 1
  /\ saveTimeout' = timerId + 1
  /\ timers' = (IF saveTimeout # 0 THEN ClearTimeout(saveTimeout) ELSE timers)
                 \cup {SetTimeout(timerId + 1, "saveCode", debounceMs, value)}
  /\ UNCHANGED <<viewVars, now, unpausedMs, storage, saved, execVars>>

\* The auto-save's timer fires: saveCode(newCode)
SaveFires ==
  /\ ~hung
  /\ \E t \in timers :
       /\ Due(t)
       /\ t.fn = "saveCode"
       /\ timers' = timers \ {t}
       /\ SaveCode(t.newCode)
  /\ UNCHANGED <<viewVars, now, unpausedMs, code, saveTimeout, changes, timerId, execVars>>

\* ------------------------------------------------------- useCodeExecution
\* User code, by how its run ends and the wall-clock time the run takes:
\* new Function rejects it; it returns; it throws; it never returns.
Program(ends, ms) == [ends |-> ends, ms |-> ms]
Programs ==
  {Program("SyntaxError", 0), Program("returns", 0), Program("returns", timeoutMs + 2500),
   Program("throws", StepMs), Program("throws", timeoutMs + 2500), Program("loops", 0)}

\* errorInfo of the catch block: message and type (error.name)
ErrorInfo(program) ==
  IF program.ends = "SyntaxError"
    THEN [message |-> "Unexpected token", type |-> "SyntaxError"]
    ELSE [message |-> "x is not defined", type |-> "ReferenceError"]

\* What Promise.race settles with.  userFunction runs inside the executor of
\* executionPromise, so that promise is settled before the race starts and
\* before any timer can run: it decides the race.
Race(program) == program.ends

\* executeCode(code, context), from the call to the value it resolves with
ExecuteCode(program) ==
  /\ ~hung
  /\ Len(results) < MaxRuns
  /\ IF program.ends = "SyntaxError"
       THEN \* new Function throws: no timer is set
            /\ isExecuting' = FALSE
            /\ executionError' = ErrorInfo(program)
            /\ executionSuccess' = FALSE
            /\ results' = Append(results, [started |-> now, at |-> now, success |-> FALSE,
                                            error |-> ErrorInfo(program)])
            /\ UNCHANGED <<timers, timerId, hung, now, unpausedMs>>
       ELSE /\ timerId' = timerId + 1
            /\ timers' = timers \cup {SetTimeout(timerId + 1, "reject", timeoutMs, Null)}
            /\ IF program.ends = "loops"
                 THEN /\ hung' = TRUE
                      /\ isExecuting' = TRUE
                      /\ executionError' = Null
                      /\ executionSuccess' = FALSE
                      /\ UNCHANGED <<results, now, unpausedMs>>
                 ELSE LET outcome == Race(program)
                          error == IF outcome = "returns" THEN Null ELSE ErrorInfo(program)
                      IN  /\ now' = now + program.ms
                          /\ unpausedMs' = IF isPaused THEN unpausedMs
                                           ELSE unpausedMs + program.ms
                          /\ isExecuting' = FALSE
                          /\ executionError' = error
                          /\ executionSuccess' = (outcome = "returns")
                          /\ results' = Append(results, [started |-> now, at |-> now + program.ms,
                                                          success |-> outcome = "returns",
                                                          error |-> error])
                          /\ UNCHANGED hung
  /\ UNCHANGED <<viewVars, saveVars>>

\* The timeout's timer fires: reject on timeoutPromise, after the race was settled
TimeoutFires ==
  /\ ~hung
  /\ \E t \in timers :
       /\ Due(t)
       /\ t.fn = "reject"
       /\ timers' = timers \ {t}
  /\ UNCHANGED <<viewVars, now, unpausedMs, saveVars, execVars, timerId>>

NextSim ==
  \/ Frame
  \/ Animate
  \/ TogglePause
  \/ SetTimeScale
  \/ SetSunScale
  \/ SetPlanetScale
  \/ SetMoonScale
SpecSim == Init /\ [][NextSim]_vars

\* Selection: clicks, the body list, Fit All and the info panel's close
\* button, handled between the first frame and the next
NextSelect ==
  \/ Animate
  \/ \E ray \in Rays : OnCanvasClick(ray)
  \/ \E bodyName \in BodyNames : FocusOnBody(bodyName)
  \/ FitAll
  \/ CloseInfo
SpecSelect == Init /\ [][NextSelect]_vars

\* Camera transitions over time: focus requests from the body list
NextCamera ==
  \/ Frame
  \/ Animate
  \/ AnimateCamera
  \/ \E bodyName \in {"Sun", "Earth", "Earth's Moon"} : FocusOnBody(bodyName)
  \/ FitAll
SpecCamera == Init /\ [][NextCamera]_vars

\* Pointer: clicks and pointer-moves on the canvas
NextPointer ==
  \/ Animate
  \/ \E ray \in Rays : OnCanvasClick(ray)
  \/ \E ray \in Rays : OnCanvasMouseMove(ray)
SpecPointer == Init /\ [][NextPointer]_vars

\* A camera transition while the simulation is paused, resumed and its speed changed
NextFocusSim ==
  \/ Frame
  \/ Animate
  \/ AnimateCamera
  \/ FocusOnBody("Earth")
  \/ TogglePause
  \/ SetTimeScale
SpecFocusSim == Init /\ [][NextFocusSim]_vars

\* The component's life: the scale sliders over frames, up to unmount
NextLife ==
  \/ Frame
  \/ Animate
  \/ SetSunScale
  \/ SetPlanetScale
  \/ SetMoonScale
  \/ Teardown
SpecLife == Init /\ [][NextLife]_vars

\* Resizes and unmount while a camera transition may be in flight
NextViewport ==
  \/ Frame
  \/ Animate
  \/ AnimateCamera
  \/ FocusOnBody("Earth")
  \/ OnWindowResize
  \/ Teardown
SpecViewport == Init /\ [][NextViewport]_vars

NextHover ==
  \/ Frame
  \/ Animate
  \/ \E ray \in Rays : OnCanvasMouseMove(ray)
SpecHover == Init /\ [][NextHover]_vars

\* The frame loop from mount to unmount, paused and resumed at any time
NextLoop ==
  \/ Frame
  \/ Elapse
  \/ Animate
  \/ TogglePause
  \/ Teardown
SpecLoop == Init /\ [][NextLoop]_vars

\* The editor's auto-save
NextSave ==
  \/ \E value \in Sources : EditCode(value)
  \/ SaveFires
  \/ Wait
SpecSave == Init /\ [][NextSave]_vars

\* The editor's runs of user code
NextExec ==
  \/ \E program \in Programs : ExecuteCode(program)
  \/ TimeoutFires
  \/ Wait
SpecExec == Init /\ [][NextExec]_vars

\* ------------------------------------------------------------ orbit claims
\* What the simulation moves: every planet's angle, position and rotation,
\* the moon's angle and position, the Sun's rotation, every asteroid's angle.
OrbitState ==
  [planet |-> [i \in PlanetIds |->
                 <<planetsData[i].angle, meshes[i].position, meshes[i].rotY, meshes[i].rotZ>>],
   moon |-> [i \in MoonOwners |-> <<moons[i].data.angle, moons[i].position, moons[i].rotY>>],
   sunRotation |-> sun.rotY,
   asteroidAngle |-> asteroids.angle]

\* C1: a frame-loop tick (animate) that runs while isPaused is true, whatever
\* time has elapsed, leaves every planet's angle, position and rotation, the
\* moon's angle and position, the Sun's rotation and every asteroid's angle
\* as they were.
C1_PausedTickKeepsOrbits ==
  [][(isPaused /\ last' = "animate" /\ frame' # frame) => OrbitState' = OrbitState]_vars

\* A tick has just run while paused, with wall-clock time elapsed since the
\* clock was last read and a non-zero time scale.
C1_Witness ==
  /\ isPaused
  /\ last = "animate"
  /\ now > clock.oldTime
  /\ timeScale > 0
  /\ planetsData[1].angle.d > 0

\* C5: changing planetScale leaves the Sun's radius, the glow's radius and
\* every moon's radius as they were.
C5_PlanetScaleOnlyPlanets ==
  [][planetScale' # planetScale =>
       /\ sun'.radius = sun.radius
       /\ sun'.glowRadius = sun.glowRadius
       /\ \A i \in MoonOwners : moons'[i].radius = moons[i].radius]_vars

\* C6: updateScales, run on a change of sunScale, planetScale or moonScale,
\* leaves every body's orbitRadius, orbitSpeed, angle, position and rotation,
\* the moon's orbit state and every asteroid record as they were.
C6_ScalesKeepOrbits ==
  [][<<sunScale, planetScale, moonScale>>' # <<sunScale, planetScale, moonScale>> =>
       /\ planetsData' = planetsData
       /\ OrbitState' = OrbitState
       /\ \A i \in MoonOwners : moons'[i].data = moons[i].data
       /\ asteroids' = asteroids]_vars

\* updateScales has just run on bodies that have moved since construction.
C6_Witness ==
  /\ last = "planetScale"
  /\ planetScale # planetScale0
  /\ planetsData[1].angle.d > 0
  /\ \E i \in MoonOwners : moons[i].data.angle.d > 0

\* -------------------------------------------------------- selection claims
\* The body a mesh belongs to: the glow is the Sun's, the rings are a planet's
BodyOf(o) ==
  IF o = GlowName THEN "Sun"
  ELSE IF o \in RingsNames THEN planetsData0[RingsOwner(o)].name
  ELSE o
Bodies(ray) == {BodyOf(ray[k]) : k \in DOMAIN ray}
Selectable == {"Sun"} \cup PlanetNames \cup {MoonName(i) : i \in MoonOwners}

\* C2: selecting body B (by a click on B or by focusOnBody(B)) while another
\* body A is selected leaves B as the one selected body: selectedPlanetName
\* is B and selectedPlanet is B's data or null, never A's.
C2_SelectionReplaced ==
  [][\A B \in Selectable :
       /\ selectedPlanetName \notin {Null, B}
       /\ \/ FocusOnBody(B)
          \/ \E ray \in Rays : Bodies(ray) = {B} /\ OnCanvasClick(ray)
       => /\ selectedPlanetName' = B
          /\ selectedPlanet' \in {Null, B}]_vars

\* C7: a click whose ray meets more than one interactive body selects the
\* body nearest the camera, the one onCanvasMouseMove treats as hovered.
C7_ClickSelectsNearest ==
  [][\A ray \in Rays :
       Cardinality(Bodies(ray)) > 1 /\ OnCanvasClick(ray)
       => selectedPlanetName' = BodyOf(Hovered(ray))]_vars

\* The look-at target of a transition toward body B
LookAtOf(B) == IF B = "Sun" THEN Fixed(Origin) ELSE PositionOfMesh(IdOf(B))
FocusStarted(B) ==
  /\ requests' = requests + 1
  /\ Len(rafQueue') = Len(rafQueue) + 1
  /\ LET e == rafQueue'[Len(rafQueue')]
     IN  /\ IsCameraEntry(e)
         /\ e.c.targetLookAt = LookAtOf(B)
         /\ e.c.startTime = now

\* C8: a click that hits an interactive body (the Sun or a planet) makes it
\* the selection, puts its data in selectedPlanet and starts a camera
\* transition toward it, all within the handler.
C8_ClickSelectsAndFocuses ==
  [][\A ray \in Rays : \A B \in Selectable :
       Bodies(ray) = {B} /\ OnCanvasClick(ray)
       => /\ selectedPlanetName' = B
          /\ selectedPlanet' = B
          /\ FocusStarted(B)
          /\ ~threw']_vars

\* C9: a click whose ray meets no part of the Sun or of a planet clears
\* selectedPlanet and selectedPlanetName, starts no camera transition,
\* changes no orbit state and does not throw.
C9_MissClearsSelection ==
  [][\A ray \in Rays :
       Bodies(ray) = {} /\ OnCanvasClick(ray)
       => /\ selectedPlanet' = Null
          /\ selectedPlanetName' = Null
          /\ UNCHANGED <<camera, target, requests, rafQueue, frame>>
          /\ planetsData' = planetsData
          /\ OrbitState' = OrbitState
          /\ ~threw']_vars

\* A click that met nothing has just cleared the selection, after a focus
\* request had selected a body.
C9_Witness ==
  /\ last = "click"
  /\ ~threw
  /\ selectedPlanetName = Null
  /\ selectedPlanet = Null
  /\ requests > 0
  /\ Transitions # <<>>

\* ----------------------------------------------------------- camera claims
\* C3: at most one camera focus transition is in flight at any time.
C3_AtMostOneTransition == Len(Transitions) <= 1

\* C4, the camera as presented: once a request for Y has replaced a transition
\* still under way, each position handed to the renderer is on the
\* interpolation from the camera position at that request toward Y's target
\* (as long as Fit All, which clears the selection, has not moved the camera).
NewestTransition == Transitions[Len(Transitions)].c
OnPath(p, c) ==
  \/ p \in {c.startPosition, c.targetPosition}
  \/ /\ p.k = "lerp"
     /\ p.a = c.startPosition
     /\ p.b = c.targetPosition
C4_ShownOnNewPath ==
  (/\ requests > 1
   /\ Transitions # <<>>
   /\ shown.at > NewestTransition.startTime
   /\ selectedPlanetName # Null)
    => OnPath(shown.camera, NewestTransition)

\* C4, the camera as written: a step of the transition toward X, run while a
\* later request for another target is in flight, never puts the camera at
\* X's target.
C4_NeverAtOldTarget ==
  [][(frame # <<>> /\ IsCameraEntry(Head(frame)) /\ frame' = Tail(frame))
       => \A k \in 2..Len(frame) :
            (/\ IsCameraEntry(frame[k])
             /\ frame[k].c.targetPosition # Head(frame).c.targetPosition
             /\ frame[k].c.startTime < Head(frame).c.startTime + duration)
            => camera' # Head(frame).c.targetPosition]_vars

\* C4: when focus on Y is requested while a transition toward X is under way,
\* every camera position rendered afterwards is on the interpolation toward
\* Y's target, and the camera is never set to X's target.
C4_RedirectedToNewTarget == []C4_ShownOnNewPath /\ C4_NeverAtOldTarget

\* ------------------------------------------------------------ hover claims
Highlighted == {i \in PlanetIds : meshes[i].emissive = emissiveHover}

\* C10, in every state: at most one planet carries the hover level of
\* emissiveIntensity.
C10_AtMostOneHighlighted == Cardinality(Highlighted) <= 1

\* C10, after a pointer-move: when the nearest hit is a planet, it alone is
\* highlighted; when the ray meets nothing or only the Sun, no planet is.
C10_HoverIsNearestPlanet ==
  [][\A ray \in Rays :
       OnCanvasMouseMove(ray)
       => /\ (ray # <<>> /\ Head(ray) \in PlanetNames) => Highlighted' = {IdOf(Head(ray))}
          /\ Bodies(ray) \subseteq {"Sun"} => Highlighted' = {}]_vars

\* C10: in every state at most one planet carries the hover level, and after
\* a pointer-move it is the nearest planet hit, or none when nothing or only
\* the Sun is hit.
C10_OneHoverHighlight == []C10_AtMostOneHighlighted /\ C10_HoverIsNearestPlanet

\* C11: a pointer-move whose nearest hit belongs to the selected body puts no
\* hover highlight on that body.
C11_NoHoverOnSelected ==
  [][\A ray \in Rays :
       (/\ OnCanvasMouseMove(ray)
        /\ ray # <<>>
        /\ BodyOf(Hovered(ray)) = selectedPlanetName)
       => /\ \A i \in PlanetIds :
               planetsData0[i].name = selectedPlanetName => meshes'[i].emissive # emissiveHover
          /\ \A i \in RingOwners :
               planetsData0[i].name = selectedPlanetName => rings'[i].emissive # emissiveHover]_vars

\* ------------------------------------------------------ transition claims
\* C12: a step of a camera transition taken once 1500 ms have passed since
\* the request puts the camera at the requested target position, and the
\* transition has no further step scheduled.
C12_TransitionEnds ==
  [][(AnimateCamera /\ now - Head(frame).c.startTime >= duration)
       => /\ camera' = Head(frame).c.targetPosition
          /\ rafQueue' = rafQueue
          /\ Len(Transitions') = Len(Transitions) - 1]_vars

\* A transition has just ended with a step taken more than 1500 ms after its
\* request: the camera is at the Sun's focus position and nothing is in flight.
C12_Witness ==
  /\ last = "animateCamera"
  /\ camera = XYZ(100, 80, 100)
  /\ Transitions = <<>>
  /\ now > duration
  /\ requests = 1

\* C13: while a transition is in flight its progress is within [0, 1] and no
\* step of the program makes it smaller, whatever timeScale and isPaused are.
C13_ProgressMonotone ==
  [][\A c \in {Transitions[k].c : k \in 1..Len(Transitions)} :
       /\ 0 <= Progress(c)
       /\ Progress(c) <= duration
       /\ Progress(c)' >= Progress(c)
       /\ Progress(c)' <= duration]_vars

\* A transition is part-way while the simulation is paused and the speed
\* slider is off its default.
C13_Witness ==
  /\ isPaused
  /\ timeScale # timeScale0
  /\ last = "animateCamera"
  /\ \E k \in 1..Len(Transitions) :
       /\ Progress(Transitions[k].c) > 0
       /\ Progress(Transitions[k].c) < duration

\* The focused body's position when the request was made: focusOnPlanet and
\* the moon branch build targetPosition from it; the Sun is at the origin.
RequestedLookAt(c) ==
  IF c.targetPosition.k = "beside" THEN c.targetPosition.p ELSE Origin

\* C14: the last step of a transition leaves the look-at on the focused
\* body's position at the moment of the request, and every step uses the
\* target position computed at the request.
C14_TargetFixedAtRequest ==
  [][(AnimateCamera /\ Progress(Head(frame).c) = duration)
       => /\ target' = RequestedLookAt(Head(frame).c)
          /\ camera' = Head(frame).c.targetPosition]_vars

\* ------------------------------------------------------- life-cycle claims
\* C15: every geometry made for a drawable is disposed exactly once: one that
\* updateScales replaced was disposed in that call, the attached one is
\* disposed by teardown, and none is disposed twice.
C15_DisposedOnce ==
  \A part \in {geometry.rescaled, geometry.fixed} :
    \A d \in DOMAIN part :
      \A k \in 1..Len(part[d]) :
        part[d][k] = IF k < Len(part[d]) \/ ~mounted THEN 1 ELSE 0

\* The component was unmounted after the sliders had rebuilt the geometries
\* twice or more and frames had run.
C15_Witness ==
  /\ ~mounted
  /\ last = "onBeforeUnmount"
  /\ Len(geometry.rescaled["Earth"]) > 2
  /\ Len(geometry.fixed["asteroidBelt"]) = 1
  /\ now > 0

\* C16: once onBeforeUnmount has run, no frame callback runs and nothing
\* changes the camera, the controls' target, the renderer's size or the scene.
C16_NothingAfterTeardown ==
  [][~mounted =>
       /\ ~Animate
       /\ ~AnimateCamera
       /\ UNCHANGED <<camera, target, viewport>>
       /\ OrbitState' = OrbitState]_vars

\* C20: a tick that runs while the container is zero-sized skips
\* renderer.render and still schedules the next frame.
C20_DegenerateTickSkipsRender ==
  [][(Animate /\ Degenerate(viewport))
       => /\ shown' = shown
          /\ rafQueue' = Append(rafQueue, AnimateEntry)]_vars

\* ------------------------------------------------------- population claims
\* C17: the asteroid records and the instance count of the batched mesh are
\* both 800 in every state; no record is added or removed.
C17_PopulationFixed ==
  /\ asteroids.count = asteroidCount
  /\ DOMAIN asteroidData0[asteroids.seed] = 1..asteroidCount
  /\ DOMAIN asteroids.angle = 1..asteroidCount
  /\ DOMAIN asteroids.turned = 1..asteroidCount
  /\ DOMAIN asteroids.shrunk = 1..asteroidCount

\* Ticks have moved the last asteroid, the speed slider is off its default
\* and the simulation is now paused.
C17_Witness ==
  /\ last = "animate"
  /\ isPaused
  /\ timeScale # timeScale0
  /\ asteroids.angle[asteroidCount] > 0

\* C18: focusOnBody with a name that is not the Sun, a planet or the moon of a
\* planet that has one changes neither the selection nor the camera, starts no
\* transition and does not throw.
C18_UnknownBodyIsNoOp ==
  [][\A bodyName \in BodyNames \ Selectable :
       FocusOnBody(bodyName)
       => /\ UNCHANGED <<selectedPlanet, selectedPlanetName, camera, target, requests, rafQueue>>
          /\ ~threw']_vars

\* C19, in every state: each planet is at (cos(angle) * orbitRadius, 0,
\* sin(angle) * orbitRadius) for its current angle.
C19_PositionFromAngle ==
  \A i \in PlanetIds :
    meshes[i].position = Orbit(Origin, planetsData[i].angle, planetsData[i].orbitRadius)

\* C19, on a tick: an unpaused tick adds orbitSpeed * delta * timeScale to each
\* planet's angle.
C19_TickAdvances ==
  [][(Animate /\ ~isPaused)
       => \A i \in PlanetIds :
            planetsData'[i].angle =
              Advance(planetsData[i].angle, planetsData[i].orbitSpeed * ScaledDelta)]_vars

\* C19: each unpaused tick adds orbitSpeed * delta * timeScale to every
\* planet's angle and puts the planet at the position of the new angle, so
\* that in every state a planet is where its angle says, orbitRadius away from
\* the origin.
C19_OrbitStep == []C19_PositionFromAngle /\ C19_TickAdvances

\* An unpaused tick has just moved the planets at a speed off the default.
C19_Witness ==
  /\ last = "animate"
  /\ ~isPaused
  /\ timeScale = 5
  /\ planetsData[1].angle.d > 0

\* --------------------------------------------------------- asteroid scale
\* C21: in every state, after any number of ticks and at any timeScale, the
\* scale in every asteroid's instance transform is the scale drawn for it at
\* construction.
C21_ScaleFixed == \A i \in 1..asteroidCount : ~asteroids.shrunk[i]

\* ------------------------------------------------------------- moon claims
\* C22: in every state the renderer is shown (from the first tick on), the
\* moon's position is its planet's current position plus
\* (cos(angle) * orbitRadius, 0, sin(angle) * orbitRadius) for the moon's
\* current angle: it is computed from the planet's position of the same tick.
C22_MoonAroundPlanet ==
  last # "onMounted"
    => \A i \in MoonOwners :
         moons[i].position = Orbit(meshes[i].position, moons[i].data.angle,
                                   moons[i].data.orbitRadius)

\* A tick has moved the planet and its moon.
C22_Witness ==
  /\ last = "animate"
  /\ \E i \in MoonOwners :
       /\ planetsData[i].angle.d > 0
       /\ moons[i].data.angle.d > 0

\* ------------------------------------------------------- frame-loop claims
\* C23: while the view is mounted exactly one animate call is pending or
\* running, whether paused or not and however often the pause button was
\* used; every animate call requests exactly one next frame and presents the
\* scene, with the camera as it is then.
C23_SingleChain ==
  /\ [](mounted => Len(SelectSeq(rafQueue \o frame, LAMBDA e : e.fn = "animate")) = 1)
  /\ [][Animate => /\ rafQueue' = Append(rafQueue, AnimateEntry)
                   /\ shown' = [camera |-> camera, target |-> target, at |-> now]]_vars

\* A tick has run and presented the scene while paused, after time passed.
C23_Witness ==
  /\ mounted
  /\ isPaused
  /\ last = "animate"
  /\ shown.at = now
  /\ now > 0

\* C27, as claimed: the step a tick applies (read off the Sun's rotation,
\* 0.001 * scaledDelta) is timeScale times the wall-clock time that passed
\* unpaused since the simulation was last stepped; summed over the ticks, the
\* total step is timeScale times the total unpaused time.
C27_StepIsUnpausedTime ==
  [][(Animate /\ ~isPaused)
       => sun'.rotY - sun.rotY = 10 * timeScale * unpausedMs]_vars

\* C27, amended: the step a tick applies is at most timeScale times the
\* wall-clock time that passed unpaused since the simulation was last stepped:
\* no paused time is in it.
C27_PausedTimeExcluded ==
  [][(Animate /\ ~isPaused)
       => sun'.rotY - sun.rotY <= 10 * timeScale * unpausedMs]_vars

\* A tick has stepped the simulation after a resume, and less was simulated
\* in total than timeScale times the wall-clock time since mount.
C27_Witness ==
  /\ last = "animate"
  /\ ~isPaused
  /\ clock.oldTime = now
  /\ sun.rotY > 0
  /\ sun.rotY < 10 * timeScale * now

\* ------------------------------------------------------------ scale claims
\* C24: in every state (at construction and after any multiplier changes)
\* the Sun's radius is 10 * sunScale, every planet's baseSize * planetScale,
\* every moon's moonBaseSize * moonScale, and the rings span 1.5 to 2.5 times
\* their planet's radius.
C24_RadiiFollowScales ==
  /\ sun.radius = 1000 * sunScale
  /\ \A i \in PlanetIds : meshes[i].radius = PlanetSize(i, planetScale)
  /\ \A i \in MoonOwners : moons[i].radius = MoonSize(moonScale)
  /\ \A i \in RingOwners : rings[i].geometry = RingGeometry(meshes[i].radius)

\* -------------------------------------------------------- selection claims
\* C28: in every state, when selectedPlanet is not null, selectedPlanetName
\* is the name of the body selectedPlanet refers to.
C28_SelectionConsistent ==
  selectedPlanet # Null => selectedPlanetName = selectedPlanet

\* C29: once Fit All has put the camera at (600, 400, 600) looking at the
\* origin (no body is selected), no step that is not a focus request moves
\* the camera or the look-at.
C29_FitAllStays ==
  [][(/\ camera = XYZ(600, 400, 600)
      /\ target = Origin
      /\ selectedPlanetName = Null
      /\ selectedPlanetName' = Null)
       => /\ camera' = camera
          /\ target' = target]_vars

\* C30: a pointer-move off every body, made while a planet is highlighted
\* by the pointer, leaves every planet's emissiveIntensity at the value it
\* was constructed with.
C30_HoverReversible ==
  [][(Highlighted # {} /\ cursor = "pointer" /\ OnCanvasMouseMove(<<>>))
       => \A i \in PlanetIds :
            meshes'[i].emissive = CreatePlanetMesh(i, planetScale0).emissive]_vars

\* ----------------------------------------------------------- editor claims
\* C25: every executeCode call whose user code ran for 5 seconds or more
\* resolved with success false and the error 'Code execution timeout
\* (5 seconds)', and isExecuting is false whenever no call is under way.
C25_TimeoutProtects ==
  /\ \A k \in 1..Len(results) :
       results[k].at - results[k].started >= timeoutMs
         => /\ ~results[k].success
            /\ results[k].error.message = timeoutMessage
  /\ ~hung => ~isExecuting

\* Change k of the code is the last of its burst: none follows within 500 ms.
C26_LastOfBurst(k) ==
  k = Len(changes) \/ changes[k + 1].at - changes[k].at >= debounceMs

\* The changes whose save is due by now: the last of every burst, 500 ms on.
C26_Due ==
  {k \in 1..Len(changes) : C26_LastOfBurst(k) /\ changes[k].at + debounceMs <= now}

====
